---- MODULE Spec2Model ----
(***************************************************************************)
(* A model of the datatype/buffer layer (src/src/datatype.rs) and of the   *)
(* collective protocol layer (src/src/collective/mod.rs) of rsmpi.         *)
(*                                                                         *)
(* The module holds these state machines over one set of variables:        *)
(*   SpecPartition  - Partition::new / PartitionMut::new                   *)
(*   SpecDatatype   - the UserDatatype combinators and Drop                *)
(*   SpecCount      - Collection::count of a scalar and of a slice         *)
(*   SpecBarrier    - barrier, immediate_barrier and BarrierRequest        *)
(*   SpecCollective - broadcast, gather, all-gather, scatter, all-to-all   *)
(*                    on buffers of a system datatype                      *)
(*   SpecUserTyped  - the same collectives on buffers of a UserDatatype    *)
(* Each one leaves the variables of the others at their initial value.     *)
(***************************************************************************)
EXTENDS Integers, Sequences, FiniteSets, TLC

VARIABLES
    \* ---- Partition / PartitionMut (datatype.rs:574-689) ----
    buf_n,            \* buf.count() of the underlying buffer
    in_counts,        \* the counts table handed to new()
    in_displs,        \* the displs table handed to new()
    overflow_checks,  \* build setting: TRUE = `+` panics on overflow, FALSE = it wraps
    part,             \* the outcome of the constructor call
    \* ---- UserDatatype (datatype.rs:129-295) ----
    rt_types,         \* the runtime's type descriptors, by handle
    user_types,       \* the UserDatatype values of the program, by value id
    dt_panic,         \* what the last datatype operation raised ("none" if nothing)
    dt_call,          \* the last datatype operation and the lengths of the slices it was given
    \* ---- Collection::count (datatype.rs:335-353) ----
    cnt_in,           \* the value count() is called on: a scalar or a slice, of which type, how long
    cnt_out,          \* the outcome of the call
    \* ---- barrier / immediate_barrier (collective/mod.rs:32-53, 213-262) ----
    calls,            \* per participant: the sequence of barrier calls it has made
    bpc,              \* per participant: "idle" or "in_barrier" (blocked in MPI_Barrier)
    requests,         \* per participant: its BarrierRequest values, by call index
    \* ---- buffered collectives (collective/mod.rs:71-211) ----
    comm_size,        \* communicator().size()
    root,             \* the rank the Root value of the program identifies
    mem,              \* per participant: its buffers (sequences of elements)
    pc,               \* per participant: "idle" or "in_call"
    round,            \* per participant: how many collectives it has returned from
    ops,              \* per round: the operation the communicator runs in that round
    call,             \* per participant: the arguments it handed to the runtime
    wire,             \* per round and participant: the data the runtime took from it
    rt_err,           \* the participants whose call the runtime has reported as erroneous
    elem_dt,          \* the kind of datatype the buffers of the program are associated with
    types,            \* per participant: the type descriptors of its runtime, by handle
    temps             \* per participant: the handles of the UserDatatype temporaries of
                      \* the statement that is running (dropped when the statement ends)

partVars == <<buf_n, in_counts, in_displs, overflow_checks, part>>
dtVars   == <<rt_types, user_types, dt_panic, dt_call>>
barVars  == <<calls, bpc, requests>>
collVars == <<comm_size, root, mem, pc, round, ops, call, wire, rt_err,
             elem_dt, types, temps>>
cntVars  == <<cnt_in, cnt_out>>
vars     == <<partVars, dtVars, barVars, collVars, cntVars>>

----------------------------------------------------------------------------
(* Bounds of the model *)

MaxN     == 2    \* buffers of the partition model hold 0..MaxN elements
MaxParts == 2    \* counts/displs tables of the partition model have 0..MaxParts entries

(* Count is a C int (datatype.rs:50 imports it): 32 bits, two's complement *)
COUNT_MAX == 2147483647
COUNT_MIN == -COUNT_MAX - 1

----------------------------------------------------------------------------
(* Initial values of each part: used by the specifications that do not     *)
(* exercise that part.                                                     *)

PartIdle ==
    /\ buf_n = 0 /\ in_counts = <<>> /\ in_displs = <<>>
    /\ overflow_checks = TRUE /\ part = [status |-> "none"]

NoDtCall == [op |-> "none", nblocks |-> 0, ndispls |-> 0]

DtIdle ==
    /\ rt_types = <<>> /\ user_types = <<>> /\ dt_panic = "none"
    /\ dt_call = NoDtCall

CntIdle ==
    /\ cnt_in = [kind |-> "none"] /\ cnt_out = [status |-> "none"]

BarIdle ==
    /\ calls = <<>> /\ bpc = <<>> /\ requests = <<>>

CollIdle ==
    /\ root = 0 /\ mem = <<>> /\ pc = <<>> /\ round = <<>>
    /\ ops = <<>> /\ call = <<>> /\ wire = <<>> /\ rt_err = {}
    /\ elem_dt = "system" /\ types = <<>> /\ temps = <<>>

----------------------------------------------------------------------------
(* Partition::new and PartitionMut::new                                    *)

Min(a, b) == IF a <= b THEN a ELSE b

\* i32 `c + d` leaves the range of Count
AddOverflows(c, d) ==
    \/ c > 0 /\ d > COUNT_MAX - c
    \/ c < 0 /\ d < COUNT_MIN - c

\* i32 `c + d` as a release build computes it: the sum modulo 2^32
WrappingAdd(c, d) ==
    IF c > 0 /\ d > COUNT_MAX - c THEN (c - COUNT_MAX - 1) + (d - COUNT_MAX - 1)
    ELSE IF c < 0 /\ d < COUNT_MIN - c THEN (c + COUNT_MAX + 1) + (d + COUNT_MAX + 1)
    ELSE c + d

\* counts.iter().zip(displs.iter()).all(|(&c, &d)| c + d <= n), from pair i on.
\* zip stops at the shorter table; all() stops at the first pair that fails.
\* "overflow" is the panic `+` raises in a build with overflow checks.
RECURSIVE ZipAll(_, _, _, _, _)
ZipAll(counts, displs, n, checks, i) ==
    IF i > Min(Len(counts), Len(displs)) THEN "true"
    ELSE IF checks /\ AddOverflows(counts[i], displs[i]) THEN "overflow"
    ELSE IF WrappingAdd(counts[i], displs[i]) <= n
         THEN ZipAll(counts, displs, n, checks, i + 1)
         ELSE "false"

\* The body shared by the two constructors: assert!(...) then build the struct.
NewOutcome(kind, counts, displs, n, checks) ==
    IF ZipAll(counts, displs, n, checks, 1) = "true"
    THEN [status |-> "built", kind |-> kind, buf |-> n,
          counts |-> counts, displs |-> displs]
    ELSE [status |-> "panicked", kind |-> kind]

Partition_new ==
    /\ part.status = "none"
    /\ part' = NewOutcome("Partition", in_counts, in_displs, buf_n, overflow_checks)
    /\ UNCHANGED <<buf_n, in_counts, in_displs, overflow_checks>>
    /\ UNCHANGED <<dtVars, barVars, collVars, cntVars>>

PartitionMut_new ==
    /\ part.status = "none"
    /\ part' = NewOutcome("PartitionMut", in_counts, in_displs, buf_n, overflow_checks)
    /\ UNCHANGED <<buf_n, in_counts, in_displs, overflow_checks>>
    /\ UNCHANGED <<dtVars, barVars, collVars, cntVars>>

\* Count values the tables are drawn from: small ones around the buffer
\* size and the largest Count.
CountValues == (-1 .. MaxN + 1) \cup {COUNT_MAX}

Tables == UNION {[1..k -> CountValues] : k \in 0..MaxParts}

InitPartition ==
    /\ buf_n \in 0..MaxN
    /\ in_counts \in Tables
    /\ in_displs \in Tables
    /\ overflow_checks \in BOOLEAN
    /\ part = [status |-> "none"]
    /\ DtIdle /\ BarIdle /\ CollIdle /\ CntIdle /\ comm_size = 0

NextPartition == Partition_new \/ PartitionMut_new

SpecPartition == InitPartition /\ [][NextPartition]_vars

----------------------------------------------------------------------------
(* C1: Partition::new and PartitionMut::new succeed if and only if          *)
(* displs[i] + counts[i] <= N holds (in the integers) for every index i of *)
(* the tables; otherwise the constructor raises a fatal assertion.         *)
(* "Every index" is read as every index both tables have, as zip does.     *)

\* displs[i] + counts[i] <= n, without leaving the 32-bit range to say it
FitsBuffer(c, d, n) == d <= n - c

AllFit ==
    \A i \in 1..Min(Len(in_counts), Len(in_displs)) :
        FitsBuffer(in_counts[i], in_displs[i], buf_n)

C1_SucceedsIffAllFit ==
    /\ part.status = "built" => AllFit
    /\ part.status = "panicked" => ~AllFit

----------------------------------------------------------------------------
(* C14: every Partition and PartitionMut the constructors build carries    *)
(* counts and displs tables of equal length, one pair per participant.     *)

C14_TablesOfEqualLength ==
    part.status = "built" => Len(part.counts) = Len(part.displs)

----------------------------------------------------------------------------
(* C17: every Partition and PartitionMut the constructors build has each   *)
(* segment inside the underlying buffer: for every pair i of the tables,   *)
(* 0 <= counts[i], 0 <= displs[i] and, in the integers,                    *)
(* displs[i] + counts[i] <= buf.count(). Negative entries and pairs whose  *)
(* 32-bit sum wraps are rejected.                                          *)

SegmentInside(c, d, n) == 0 <= c /\ 0 <= d /\ FitsBuffer(c, d, n)

C17_SegmentsInsideBuffer ==
    part.status = "built" =>
        \A i \in 1..Min(Len(part.counts), Len(part.displs)) :
            SegmentInside(part.counts[i], part.displs[i], part.buf)

----------------------------------------------------------------------------
(* UserDatatype: the combinators and Drop                                  *)

MaxTypes  == 2   \* at most MaxTypes UserDatatype values are constructed in a run
MaxBlocks == 1   \* blocklengths/displacements slices have 0..MaxBlocks entries

\* Handles: 0 is RSMPI_DATATYPE_NULL, a negative number a system datatype
\* (datatype.rs:101-122), a positive number a descriptor the runtime allocated.
DATATYPE_NULL == 0
SystemDatatypes == {-1}

\* MPI_Type_contiguous, MPI_Type_vector, ...: the runtime allocates one new
\* descriptor and writes its handle to `newtype`.
RtTypeCreate(rt, kind, oldtype) ==
    Append(rt, [state |-> "created", kind |-> kind, old |-> oldtype,
                commits |-> 0, frees |-> 0])

\* MPI_Type_commit(&mut newtype)
RtTypeCommit(rt, h) ==
    [rt EXCEPT ![h].state = "committed", ![h].commits = @ + 1]

\* MPI_Type_free(&mut handle): the call is issued; when the runtime carries it
\* out the descriptor is released and the handle is overwritten with the null
\* handle, when it reports a failure the handle is left as it was.
RtTypeFree(rt, h, ok) ==
    [rt EXCEPT ![h].frees = @ + 1,
               ![h].state = IF ok THEN "freed" ELSE @]

HandleAfterFree(h, ok) == IF ok THEN DATATYPE_NULL ELSE h

\* The body shared by the seven combinators: create, commit, wrap. The
\* combinators ignore the return codes and take the runtime calls to
\* succeed (`newtype` is uninitialized memory until the runtime writes it).
Construct(kind, oldtype) ==
    LET h == Len(rt_types) + 1 IN
    /\ rt_types' = RtTypeCommit(RtTypeCreate(rt_types, kind, oldtype), h)
    /\ user_types' = Append(user_types, [handle |-> h, made |-> h, dropped |-> "no"])
    /\ dt_panic' = "none"

\* The operation that runs, with blocklengths.len() and displacements.len()
\* where it takes the two slices.
Called(op, nblocks, ndispls) ==
    dt_call' = [op |-> op, nblocks |-> nblocks, ndispls |-> ndispls]

\* The datatypes a combinator can be given as oldtype: a system datatype or
\* a UserDatatype value that is still alive (it is borrowed).
OldTypes ==
    SystemDatatypes \cup
    {user_types[v].handle : v \in {w \in DOMAIN user_types : user_types[w].dropped = "no"}}

CanConstruct == Len(user_types) < MaxTypes

UserDatatype_contiguous ==
    /\ CanConstruct
    /\ \E oldtype \in OldTypes : Construct("contiguous", oldtype)
    /\ Called("contiguous", 0, 0)
    /\ UNCHANGED <<partVars, barVars, collVars, cntVars>>

UserDatatype_vector ==
    /\ CanConstruct
    /\ \E oldtype \in OldTypes : Construct("vector", oldtype)
    /\ Called("vector", 0, 0)
    /\ UNCHANGED <<partVars, barVars, collVars, cntVars>>

UserDatatype_heterogeneous_vector ==
    /\ CanConstruct
    /\ \E oldtype \in OldTypes : Construct("hvector", oldtype)
    /\ Called("hvector", 0, 0)
    /\ UNCHANGED <<partVars, barVars, collVars, cntVars>>

\* assert_eq!(blocklengths.len(), displacements.len()) comes first: when it
\* fails nothing else of the body runs.
IndexedBodyLateAssert(kind, nblocks, ndispls, oldtype) ==
    IF nblocks # ndispls
    THEN /\ dt_panic' = "assert_eq: lengths differ"
         /\ rt_types' = RtTypeCreate(rt_types, kind, oldtype)
         /\ UNCHANGED user_types
    ELSE Construct(kind, oldtype)

IndexedBody(kind, nblocks, ndispls, oldtype) ==
    IF nblocks # ndispls
    THEN /\ dt_panic' = "assert_eq: lengths differ"
         /\ UNCHANGED <<rt_types, user_types>>
    ELSE Construct(kind, oldtype)

UserDatatype_indexed ==
    /\ CanConstruct
    /\ \E nblocks \in 0..MaxBlocks, ndispls \in 0..MaxBlocks, oldtype \in OldTypes :
           /\ IndexedBody("indexed", nblocks, ndispls, oldtype)
           /\ Called("indexed", nblocks, ndispls)
    /\ UNCHANGED <<partVars, barVars, collVars, cntVars>>

UserDatatype_heterogeneous_indexed ==
    /\ CanConstruct
    /\ \E nblocks \in 0..MaxBlocks, ndispls \in 0..MaxBlocks, oldtype \in OldTypes :
           /\ IndexedBody("hindexed", nblocks, ndispls, oldtype)
           /\ Called("hindexed", nblocks, ndispls)
    /\ UNCHANGED <<partVars, barVars, collVars, cntVars>>

UserDatatype_indexed_block ==
    /\ CanConstruct
    /\ \E oldtype \in OldTypes : Construct("indexed_block", oldtype)
    /\ Called("indexed_block", 0, 0)
    /\ UNCHANGED <<partVars, barVars, collVars, cntVars>>

UserDatatype_heterogeneous_indexed_block ==
    /\ CanConstruct
    /\ \E oldtype \in OldTypes : Construct("hindexed_block", oldtype)
    /\ Called("hindexed_block", 0, 0)
    /\ UNCHANGED <<partVars, barVars, collVars, cntVars>>

\* Drop for UserDatatype: MPI_Type_free(&mut self.0), then
\* assert_eq!(self.0, RSMPI_DATATYPE_NULL).
DropBodyNoFree(v, ok) ==
    /\ UNCHANGED rt_types
    /\ user_types' = [user_types EXCEPT ![v].dropped = "panicked"]
    /\ dt_panic' = "assert_eq: handle is not null"

DropBody(v, ok) ==
    LET h  == user_types[v].handle
        h2 == HandleAfterFree(h, ok) IN
    /\ rt_types' = RtTypeFree(rt_types, h, ok)
    /\ user_types' = [user_types EXCEPT
           ![v].handle = h2,
           ![v].dropped = IF h2 = DATATYPE_NULL THEN "clean" ELSE "panicked"]
    /\ dt_panic' = IF h2 = DATATYPE_NULL THEN "none" ELSE "assert_eq: handle is not null"

UserDatatype_drop ==
    /\ \E v \in DOMAIN user_types, ok \in BOOLEAN :
          /\ user_types[v].dropped = "no"
          /\ DropBody(v, ok)
    /\ Called("drop", 0, 0)
    /\ UNCHANGED <<partVars, barVars, collVars, cntVars>>

InitDatatype ==
    /\ rt_types = <<>> /\ user_types = <<>> /\ dt_panic = "none"
    /\ dt_call = NoDtCall
    /\ PartIdle /\ BarIdle /\ CollIdle /\ CntIdle /\ comm_size = 0

NextDatatype ==
    \/ UserDatatype_contiguous
    \/ UserDatatype_vector
    \/ UserDatatype_heterogeneous_vector
    \/ UserDatatype_indexed
    \/ UserDatatype_heterogeneous_indexed
    \/ UserDatatype_indexed_block
    \/ UserDatatype_heterogeneous_indexed_block
    \/ UserDatatype_drop

SpecDatatype == InitDatatype /\ [][NextDatatype]_vars

----------------------------------------------------------------------------
(* C2: every UserDatatype value owns one runtime descriptor of its own,    *)
(* which is created and committed (once) when the constructor returns, is  *)
(* not freed while the value is alive, and has had MPI_Type_free issued on *)
(* it exactly once when the value has been dropped; the drop raises the    *)
(* assertion exactly when the handle is not the null handle after the free.*)

C2_Lifecycle ==
    /\ Len(rt_types) = Len(user_types)
    /\ \A v \in DOMAIN user_types :
          LET t == user_types[v]
              d == rt_types[t.made] IN
          /\ t.made = v
          /\ d.commits = 1
          /\ t.dropped = "no" =>
                /\ t.handle = t.made
                /\ d.state = "committed"
                /\ d.frees = 0
          /\ t.dropped # "no" => d.frees = 1
          /\ t.dropped = "clean" <=> (t.dropped # "no" /\ t.handle = DATATYPE_NULL)
          /\ t.dropped = "clean" => d.state = "freed"
          /\ t.dropped = "panicked" => t.handle # DATATYPE_NULL

\* a value has been constructed from another, and dropped cleanly, while
\* another one was dropped with the assertion raised
C2_Witness ==
    \E v, w \in DOMAIN user_types :
        /\ user_types[v].dropped = "clean"
        /\ rt_types[user_types[v].made].old > 0
        /\ user_types[w].dropped = "panicked"

----------------------------------------------------------------------------
(* C11: a call of indexed or heterogeneous_indexed with blocklengths and   *)
(* displacements of different lengths raises the assertion, and the step   *)
(* creates and commits no descriptor and makes no UserDatatype value: the  *)
(* runtime's descriptors are after the call what they were before it.      *)

IndexedOps == {"indexed", "hindexed"}

C11_RejectedBeforeAllocation ==
    [][(dt_call'.op \in IndexedOps /\ dt_call'.nblocks # dt_call'.ndispls)
          => /\ dt_panic' = "assert_eq: lengths differ"
             /\ rt_types' = rt_types
             /\ user_types' = user_types]_vars

\* a call with slices of different lengths was rejected while a value made
\* before it is alive, and nothing but that value's descriptor exists
C11_Witness ==
    /\ dt_call.op \in IndexedOps /\ dt_call.nblocks # dt_call.ndispls
    /\ dt_panic = "assert_eq: lengths differ"
    /\ Len(rt_types) = 1 /\ Len(user_types) = 1
    /\ user_types[1].dropped = "no" /\ rt_types[1].state = "committed"

----------------------------------------------------------------------------
(* Collection::count: the element count of a scalar and of a slice         *)

MaxLen == 2    \* slices of 0..MaxLen elements, and of as many below a multiple of 2^31
MaxHi  == 2    \* slice lengths reach up to MaxHi * 2^31 + COUNT_MAX

\* The types with an Equivalence (datatype.rs:101-122)
ScalarTypes ==
    {"f32", "f64", "i8", "i16", "i32", "i64", "u8", "u16", "u32", "u64",
     "usize", "isize"}

\* A slice length is a usize, wider than Count: the length hi * 2^31 + lo
\* is written [hi |-> hi, lo |-> lo], with 0 <= lo <= COUNT_MAX.
Lengths ==
    {[hi |-> h, lo |-> l] :
        h \in 0..MaxHi,
        l \in (0..MaxLen) \cup {COUNT_MAX - d : d \in 0..MaxLen}}

\* `len as Count`: the low 32 bits of the length, read as a signed number
value_as_cast(len) ==
    [ok |-> TRUE,
     value |-> IF len.hi % 2 = 0 THEN len.lo ELSE len.lo - COUNT_MAX - 1]

\* len.value_as::<Count>(): the value when Count can hold it, an error
\* (positive overflow) when it cannot
value_as(len) ==
    IF len.hi > 0 THEN [ok |-> FALSE, value |-> 0]
    ELSE [ok |-> TRUE, value |-> len.lo]

\* Option::expect(msg): the value, or a panic
expect(res) ==
    IF res.ok THEN [status |-> "returned", value |-> res.value]
    ELSE [status |-> "panicked", value |-> 0]

\* impl Collection for T where T: Equivalence
Collection_count_scalar ==
    /\ cnt_in.kind = "scalar" /\ cnt_out.status = "none"
    /\ cnt_out' = [status |-> "returned", value |-> 1]
    /\ UNCHANGED cnt_in
    /\ UNCHANGED <<partVars, dtVars, barVars, collVars>>

\* impl Collection for [T] where T: Equivalence
Collection_count_slice ==
    /\ cnt_in.kind = "slice" /\ cnt_out.status = "none"
    /\ cnt_out' = expect(value_as(cnt_in.len))
    /\ UNCHANGED cnt_in
    /\ UNCHANGED <<partVars, dtVars, barVars, collVars>>

InitCount ==
    /\ cnt_in \in
          {[kind |-> "scalar", type |-> t] : t \in ScalarTypes} \cup
          {[kind |-> "slice", type |-> t, len |-> n] : t \in ScalarTypes, n \in Lengths}
    /\ cnt_out = [status |-> "none"]
    /\ PartIdle /\ DtIdle /\ BarIdle /\ CollIdle /\ comm_size = 0

NextCount == Collection_count_scalar \/ Collection_count_slice

SpecCount == InitCount /\ [][NextCount]_vars

----------------------------------------------------------------------------
(* C12: the count of a single value of a supported scalar type is 1; the   *)
(* count of a slice of N elements is N when N is at most the largest       *)
(* Count, and for every larger N the call panics instead of returning a    *)
(* truncated or wrapped number.                                            *)

\* the length is at most COUNT_MAX
Representable(len) == len.hi = 0

C12_CountExactOrFails ==
    cnt_out.status # "none" =>
        /\ cnt_in.kind = "scalar" =>
              cnt_out.status = "returned" /\ cnt_out.value = 1
        /\ (cnt_in.kind = "slice" /\ Representable(cnt_in.len)) =>
              cnt_out.status = "returned" /\ cnt_out.value = cnt_in.len.lo
        /\ (cnt_in.kind = "slice" /\ ~Representable(cnt_in.len)) =>
              cnt_out.status = "panicked"

\* count() was called on a slice one element longer than the largest Count
C12_Witness ==
    /\ cnt_in.kind = "slice"
    /\ cnt_in.len = [hi |-> 1, lo |-> 0]
    /\ cnt_out.status = "panicked"

----------------------------------------------------------------------------
(* barrier, immediate_barrier and BarrierRequest                           *)

MaxBarrierProcs == 2   \* the communicator of the barrier model has 1..MaxBarrierProcs participants
MaxCalls        == 2   \* each participant makes at most MaxCalls barrier calls

REQUEST_NULL == 0      \* ffi::RSMPI_REQUEST_NULL; an active request handle is positive

Ranks == 0 .. comm_size - 1

\* The collective calls on a communicator match in order: participant p may
\* make `op` its next call only if no other participant made another
\* operation its call of the same index (the precondition of every collective).
CallMatches(p, op) ==
    LET k == Len(calls[p]) + 1 IN
    \A q \in Ranks : Len(calls[q]) >= k => calls[q][k] = op

\* Every participant has made its k-th call on the communicator.
AllEntered(k) == \A q \in Ranks : Len(calls[q]) >= k

\* barrier(): the call into MPI_Barrier ...
barrier_enter(p) ==
    /\ bpc[p] = "idle"
    /\ Len(calls[p]) < MaxCalls
    /\ CallMatches(p, "barrier")
    /\ calls' = [calls EXCEPT ![p] = Append(@, "barrier")]
    /\ bpc' = [bpc EXCEPT ![p] = "in_barrier"]
    /\ UNCHANGED requests
    /\ UNCHANGED <<partVars, dtVars, collVars, cntVars>>

\* ... which returns once every participant has entered the same barrier.
BarrierMayReturnAtOnce(p) == TRUE

BarrierMayReturn(p) == AllEntered(Len(calls[p]))

barrier_return(p) ==
    /\ bpc[p] = "in_barrier"
    /\ BarrierMayReturn(p)
    /\ bpc' = [bpc EXCEPT ![p] = "idle"]
    /\ UNCHANGED <<calls, requests>>
    /\ UNCHANGED <<partVars, dtVars, collVars, cntVars>>

\* MPI_Ibarrier writes the handle of a new, active request to `request`.
IbarrierHandleNull(p) == REQUEST_NULL

IbarrierHandle(p) == Len(calls[p]) + 1

\* immediate_barrier(): MPI_Ibarrier(comm, &mut request); BarrierRequest(request)
immediate_barrier(p) ==
    /\ bpc[p] = "idle"
    /\ Len(calls[p]) < MaxCalls
    /\ CallMatches(p, "ibarrier")
    /\ calls' = [calls EXCEPT ![p] = Append(@, "ibarrier")]
    /\ requests' = [requests EXCEPT ![p] = Append(@,
           [call |-> Len(calls[p]) + 1, handle |-> IbarrierHandle(p),
            observed |-> FALSE, dropped |-> "no"])]
    /\ UNCHANGED bpc
    /\ UNCHANGED <<partVars, dtVars, collVars, cntVars>>

\* The completion collaborator (point_to_point, not part of these sources):
\* wait blocks until the operation is complete, test does not block; on
\* completion both set the handle to the null request.
RequestComplete(p, i) == AllEntered(requests[p][i].call)

Retire(p, i) ==
    requests' = [requests EXCEPT ![p][i].handle = REQUEST_NULL,
                                  ![p][i].observed = TRUE]

request_wait(p, i) ==
    /\ bpc[p] = "idle"
    /\ requests[p][i].dropped = "no"
    /\ requests[p][i].handle # REQUEST_NULL
    /\ RequestComplete(p, i)
    /\ Retire(p, i)
    /\ UNCHANGED <<calls, bpc>>
    /\ UNCHANGED <<partVars, dtVars, collVars, cntVars>>

request_test(p, i) ==
    /\ bpc[p] = "idle"
    /\ requests[p][i].dropped = "no"
    /\ requests[p][i].handle # REQUEST_NULL
    /\ IF RequestComplete(p, i) THEN Retire(p, i) ELSE UNCHANGED requests
    /\ UNCHANGED <<calls, bpc>>
    /\ UNCHANGED <<partVars, dtVars, collVars, cntVars>>

\* Drop for BarrierRequest: assert!(self.raw() == ffi::RSMPI_REQUEST_NULL, ...)
DropOutcomeNoAssert(r) == "clean"

DropOutcome(r) == IF r.handle = REQUEST_NULL THEN "clean" ELSE "panicked"

BarrierRequest_drop(p, i) ==
    /\ bpc[p] = "idle"
    /\ requests[p][i].dropped = "no"
    /\ requests' = [requests EXCEPT ![p][i].dropped = DropOutcome(requests[p][i])]
    /\ UNCHANGED <<calls, bpc>>
    /\ UNCHANGED <<partVars, dtVars, collVars, cntVars>>

InitBarrier ==
    /\ comm_size \in 1..MaxBarrierProcs
    /\ calls = [p \in Ranks |-> <<>>]
    /\ bpc = [p \in Ranks |-> "idle"]
    /\ requests = [p \in Ranks |-> <<>>]
    /\ PartIdle /\ DtIdle /\ CollIdle /\ CntIdle

NextBarrier ==
    \/ \E p \in Ranks : barrier_enter(p)
    \/ \E p \in Ranks : barrier_return(p)
    \/ \E p \in Ranks : immediate_barrier(p)
    \/ \E p \in Ranks : \E i \in DOMAIN requests[p] : request_wait(p, i)
    \/ \E p \in Ranks : \E i \in DOMAIN requests[p] : request_test(p, i)
    \/ \E p \in Ranks : \E i \in DOMAIN requests[p] : BarrierRequest_drop(p, i)

SpecBarrier == InitBarrier /\ [][NextBarrier]_vars

----------------------------------------------------------------------------
(* C3: a BarrierRequest is destroyed cleanly if and only if its handle is  *)
(* the null request when it is dropped, which is the case exactly when its *)
(* completion was observed by wait or test before; a request dropped while *)
(* it is still pending raises the assertion.                               *)

AllRequests == {<<p, i>> \in Ranks \X (1..MaxCalls + 1) : i \in DOMAIN requests[p]}

RequestOf(pi) == requests[pi[1]][pi[2]]

C3_DropCleanIffCompleted ==
    \A pi \in AllRequests :
        LET r == RequestOf(pi) IN
        /\ r.handle = REQUEST_NULL <=> r.observed
        /\ r.dropped = "clean" => r.handle = REQUEST_NULL /\ r.observed
        /\ r.dropped = "panicked" => r.handle # REQUEST_NULL /\ ~r.observed

\* one request was dropped after its completion was observed, another one
\* was dropped while pending
C3_Witness ==
    \E pi, qj \in AllRequests :
        /\ RequestOf(pi).dropped = "clean"
        /\ RequestOf(qj).dropped = "panicked"

----------------------------------------------------------------------------
(* C4: a participant that has returned from a call of barrier() did so     *)
(* only after every participant of the communicator entered that barrier.  *)

\* p has returned from its k-th call on the communicator
ReturnedFrom(p, k) ==
    \/ k < Len(calls[p])
    \/ k = Len(calls[p]) /\ bpc[p] = "idle"

C4_BarrierReturnsAfterAllEntered ==
    \A p \in Ranks : \A k \in DOMAIN calls[p] :
        (calls[p][k] = "barrier" /\ ReturnedFrom(p, k)) => AllEntered(k)

\* with more than one participant: one is blocked in its second barrier
\* after all returned from the first
C4_Witness ==
    /\ comm_size > 1
    /\ \E p \in Ranks :
          /\ Len(calls[p]) = 2 /\ calls[p] = <<"barrier", "barrier">>
          /\ bpc[p] = "in_barrier"
          /\ \A q \in Ranks \ {p} : Len(calls[q]) = 1 /\ bpc[q] = "idle"

----------------------------------------------------------------------------
(* C5: immediate_barrier hands its caller a pending request (not the null  *)
(* request) whatever the other participants have done, and no request is   *)
(* observed complete (its handle retired to the null request) before every *)
(* participant has made that immediate_barrier call.                       *)

C5_PendingUntilAllCalled ==
    \A pi \in AllRequests :
        LET r == RequestOf(pi) IN
        /\ calls[pi[1]][r.call] = "ibarrier"
        /\ ~r.observed => r.handle # REQUEST_NULL
        /\ (r.observed \/ r.handle = REQUEST_NULL) => AllEntered(r.call)

\* a participant is back from immediate_barrier with a pending request
\* while another participant has not made any call, and some request has
\* been observed complete
C5_Witness ==
    /\ comm_size > 1
    /\ \E p, q \in Ranks :
          /\ p # q
          /\ bpc[p] = "idle"
          /\ Len(requests[p]) = 2
          /\ requests[p][1].observed
          /\ requests[p][2].handle # REQUEST_NULL
          /\ Len(calls[q]) = 1

----------------------------------------------------------------------------
(* The buffered collectives: broadcast_into, gather_into, all_gather_into, *)
(* scatter_into, all_to_all_into                                           *)

MaxProcs  == 2   \* the communicator has 1..MaxProcs participants
MaxCount  == 2   \* the per-participant payload has 1..MaxCount elements
MaxRounds == 2   \* at most MaxRounds collectives run on the communicator

U8_DATATYPE == -1   \* u8::equivalent_datatype().raw(), a system datatype

\* Every participant owns four buffers (of u8 elements):
\*   s  (buffer 1) its contribution,          `payload` elements
\*   r  (buffer 2) where a scatter delivers,  `payload` elements
\*   g  (buffer 3) a buffer to be divided,    comm_size * payload (+ 1) elements
\*   t  (buffer 4) a second one of the size of g
\* All elements of all buffers of all participants start out different, so
\* that where an element ends up tells where it came from.
ElemStride == MaxProcs * MaxCount + 2

Elem(p, b, i) == (p * 4 + (b - 1)) * ElemStride + i

Pristine(p, b, n) == [i \in 1..n |-> Elem(p, b, i)]

GARBAGE == -1    \* what a read past the end of a buffer yields

\* What a buffer's datatype() is (AsDatatype::Out, datatype.rs:312-333, 446-453):
\*   "system"    a SystemDatatype: the buffers are slices of u8
\*   "borrowed"  a reference to a UserDatatype the program made before and
\*               keeps: the buffers are Views / MutViews of u8 memory
\*   "owned"     a UserDatatype value the accessor makes and returns: the
\*               element type's datatype is built by a combinator
\* Every element is one instance of the datatype (contiguous(1, u8) where it
\* is a UserDatatype).
DatatypeKinds == {"system", "borrowed", "owned"}

UserKinds == {"borrowed", "owned"}

\* x.datatype().raw(): the handle, the runtime's descriptors after the
\* accessor ran, and the temporary the accessor's value is held in (if it is
\* an owned UserDatatype).  A new descriptor gets a handle not used before.
Accessor(ts) ==
    CASE elem_dt = "system"   -> [h |-> U8_DATATYPE, ts |-> ts, temp |-> {}]
      [] elem_dt = "borrowed" -> [h |-> Len(ts), ts |-> ts, temp |-> {}]
      [] elem_dt = "owned"    ->
            LET h == Len(ts) + 1 IN
            [h |-> h,
             ts |-> RtTypeCommit(RtTypeCreate(ts, "contiguous", U8_DATATYPE), h),
             temp |-> {h}]

\* The temporaries hs go out of scope: Drop for UserDatatype runs on each
\* (the runtime carries out the MPI_Type_free).
DropTemps(ts, hs) ==
    [h \in DOMAIN ts |-> IF h \in hs THEN RtTypeFree(ts, h, TRUE)[h] ELSE ts[h]]

\* A closure returns: the temporaries of its body are dropped, the raw
\* handle it read from one is part of its result.
ClosureResult(d) == [h |-> d.h, ts |-> DropTemps(d.ts, d.temp), temp |-> {}]

\* The datatype of `buf.map_or((null, 0, u8::equivalent_datatype().raw()),
\*                             |x| (.., .., x.datatype().raw()))`
MapOrType(present, ts) ==
    IF present THEN ClosureResult(Accessor(ts))
    ELSE [h |-> U8_DATATYPE, ts |-> ts, temp |-> {}]

\* the arguments with the datatype handles filled in
WithTypes(a, sendtype, recvtype) ==
    [a EXCEPT !.sendtype = sendtype, !.recvtype = recvtype]

\* buffer.count() and buffer.pointer() of a slice; the absent buffer of a
\* non-root participant has neither.
BufCount(p, b) == Len(mem[p][b])

\* self.root_rank() of the Root value participant p uses: the rank of the
\* process the value identifies, not the rank of the caller
RootRankOfCaller(p) == p

RootRank(p) == root

\* `x.count() / self.communicator().size()`: integer division
PerRankCeil(count) == (count + comm_size - 1) \div comm_size

PerRank(count) == count \div comm_size

\* The arguments of the ffi call, as each function computes them.
BroadcastArgs(p, b) ==
    [op |-> "broadcast",
     sendptr |-> b, sendcount |-> BufCount(p, b), sendtype |-> U8_DATATYPE,
     recvptr |-> b, recvcount |-> BufCount(p, b), recvtype |-> U8_DATATYPE,
     root |-> RootRank(p)]

GatherArgsUndivided(p, sb, rb, present) ==
    [op |-> "gather",
     sendptr |-> sb, sendcount |-> BufCount(p, sb), sendtype |-> U8_DATATYPE,
     recvptr |-> IF present THEN rb ELSE "null",
     recvcount |-> IF present THEN BufCount(p, rb) ELSE 0,
     recvtype |-> U8_DATATYPE,
     root |-> RootRank(p)]

GatherArgs(p, sb, rb, present) ==
    [op |-> "gather",
     sendptr |-> sb, sendcount |-> BufCount(p, sb), sendtype |-> U8_DATATYPE,
     recvptr |-> IF present THEN rb ELSE "null",
     recvcount |-> IF present THEN PerRank(BufCount(p, rb)) ELSE 0,
     recvtype |-> U8_DATATYPE,
     root |-> RootRank(p)]

AllGatherArgsDividedSend(p, sb, rb) ==
    [op |-> "all_gather",
     sendptr |-> sb, sendcount |-> PerRank(BufCount(p, sb)), sendtype |-> U8_DATATYPE,
     recvptr |-> rb, recvcount |-> PerRank(BufCount(p, rb)), recvtype |-> U8_DATATYPE,
     root |-> 0]

AllGatherArgs(p, sb, rb) ==
    [op |-> "all_gather",
     sendptr |-> sb, sendcount |-> BufCount(p, sb), sendtype |-> U8_DATATYPE,
     recvptr |-> rb, recvcount |-> PerRank(BufCount(p, rb)), recvtype |-> U8_DATATYPE,
     root |-> 0]

ScatterArgsUndivided(p, sb, rb, present) ==
    [op |-> "scatter",
     sendptr |-> IF present THEN sb ELSE "null",
     sendcount |-> IF present THEN BufCount(p, sb) ELSE 0,
     sendtype |-> U8_DATATYPE,
     recvptr |-> rb, recvcount |-> BufCount(p, rb), recvtype |-> U8_DATATYPE,
     root |-> RootRank(p)]

ScatterArgs(p, sb, rb, present) ==
    [op |-> "scatter",
     sendptr |-> IF present THEN sb ELSE "null",
     sendcount |-> IF present THEN PerRank(BufCount(p, sb)) ELSE 0,
     sendtype |-> U8_DATATYPE,
     recvptr |-> rb, recvcount |-> BufCount(p, rb), recvtype |-> U8_DATATYPE,
     root |-> RootRank(p)]

AllToAllArgsUndividedRecv(p, sb, rb) ==
    [op |-> "all_to_all",
     sendptr |-> sb, sendcount |-> PerRank(BufCount(p, sb)), sendtype |-> U8_DATATYPE,
     recvptr |-> rb, recvcount |-> BufCount(p, rb), recvtype |-> U8_DATATYPE,
     root |-> 0]

AllToAllArgs(p, sb, rb) ==
    [op |-> "all_to_all",
     sendptr |-> sb, sendcount |-> PerRank(BufCount(p, sb)), sendtype |-> U8_DATATYPE,
     recvptr |-> rb, recvcount |-> PerRank(BufCount(p, rb)), recvtype |-> U8_DATATYPE,
     root |-> 0]

NoCall ==
    [op |-> "none", sendptr |-> "null", sendcount |-> 0, sendtype |-> U8_DATATYPE,
     recvptr |-> "null", recvcount |-> 0, recvtype |-> U8_DATATYPE, root |-> 0]

----------------------------------------------------------------------------
(* The runtime side of a collective: what MPI_Bcast, MPI_Gather,           *)
(* MPI_Allgather, MPI_Scatter and MPI_Alltoall do with the arguments.      *)

\* n elements of buf from index `from` on (1-based)
Slice(buf, from, n) ==
    [i \in 1..n |-> IF from + i - 1 <= Len(buf) THEN buf[from + i - 1] ELSE GARBAGE]

\* the contents behind a pointer argument of participant p
Pointee(p, ptr) == IF ptr = "null" THEN <<>> ELSE mem[p][ptr]

\* What the runtime sends on behalf of participant p: one segment for all
\* (broadcast at the root, gather, all-gather) or one segment per rank
\* (scatter at the root, all-to-all); nothing where p only receives.
RtSegments(p, a) ==
    LET buf == Pointee(p, a.sendptr) IN
    CASE a.op = "broadcast"  -> IF p = a.root THEN <<Slice(buf, 1, a.sendcount)>> ELSE <<>>
      [] a.op = "gather"     -> <<Slice(buf, 1, a.sendcount)>>
      [] a.op = "all_gather" -> <<Slice(buf, 1, a.sendcount)>>
      [] a.op = "scatter"    -> IF p = a.root
                                THEN [j \in 1..comm_size |->
                                         Slice(buf, (j - 1) * a.sendcount + 1, a.sendcount)]
                                ELSE <<>>
      [] a.op = "all_to_all" -> [j \in 1..comm_size |->
                                    Slice(buf, (j - 1) * a.sendcount + 1, a.sendcount)]

\* The participants whose data p's part of the collective waits for.
RtSources(p, a) ==
    CASE a.op = "broadcast"  -> IF p = a.root THEN {} ELSE {a.root}
      [] a.op = "gather"     -> IF p = a.root THEN Ranks ELSE {}
      [] a.op = "all_gather" -> Ranks
      [] a.op = "scatter"    -> {a.root}
      [] a.op = "all_to_all" -> Ranks

\* The segments that arrive at p in round k, in the order of the slots of
\* its receive buffer.
RtIncoming(p, a, k) ==
    CASE a.op = "broadcast"  -> IF p = a.root THEN <<>> ELSE <<wire[k][a.root].segs[1]>>
      [] a.op = "gather"     -> IF p = a.root
                                THEN [j \in 1..comm_size |-> wire[k][j - 1].segs[1]]
                                ELSE <<>>
      [] a.op = "all_gather" -> [j \in 1..comm_size |-> wire[k][j - 1].segs[1]]
      [] a.op = "scatter"    -> <<wire[k][a.root].segs[p + 1]>>
      [] a.op = "all_to_all" -> [j \in 1..comm_size |-> wire[k][j - 1].segs[p + 1]]

\* How the incoming segments fit the slots of `slot` elements each in a
\* receive buffer of buflen elements.
RtFit(inc, slot, buflen) ==
    IF \/ \E j \in DOMAIN inc : Len(inc[j]) > slot
       \/ Len(inc) * slot > buflen
    THEN "over"
    ELSE IF \E j \in DOMAIN inc : Len(inc[j]) < slot THEN "short"
    ELSE "exact"

\* The receive buffer after segment j was stored at the start of slot j.
RtPlace(buf, inc, slot) ==
    IF slot = 0 THEN buf
    ELSE [i \in 1..Len(buf) |->
            LET j == ((i - 1) \div slot) + 1
                o == ((i - 1) % slot) + 1 IN
            IF j <= Len(inc) /\ o <= Len(inc[j]) THEN inc[j][o] ELSE buf[i]]

----------------------------------------------------------------------------
(* The calls.  A participant enters its next collective (the function      *)
(* computes the arguments and calls into the runtime, which takes what the *)
(* participant sends), and later the runtime completes the participant's   *)
(* part and the function returns.                                          *)

\* The participants run one program (SPMD), so in a round they all make
\* the same call: the same operation on the buffers of the same name, and
\* the same way of supplying the root-only buffer:
\*   "root_only"  if rank == root { Some(buf) } else { None }
\*   "all"        Some(buf) on every rank
\* The first participant to enter a round makes the choice.
SupplyModes == {"root_only", "all"}

Supplies(mode, p) == mode = "all" \/ (mode = "root_only" /\ p = root)

MayEnter(p, o) ==
    /\ rt_err = {}
    /\ pc[p] = "idle"
    /\ round[p] < MaxRounds
    /\ Len(ops) > round[p] => ops[round[p] + 1] = o

\* given: the contents of the send buffer the caller passed (of the buffer
\* itself for a broadcast), kept for the record.
Enter(p, o, a, given, ts, tmp) ==
    LET k == round[p] + 1 IN
    /\ pc' = [pc EXCEPT ![p] = "in_call"]
    /\ types' = [types EXCEPT ![p] = ts]
    /\ temps' = [temps EXCEPT ![p] = tmp]
    /\ call' = [call EXCEPT ![p] = a]
    /\ ops' = IF Len(ops) >= k THEN ops ELSE Append(ops, o)
    /\ wire' = [wire EXCEPT ![k][p] =
           [entered |-> TRUE, given |-> given, segs |-> RtSegments(p, a)]]
    /\ UNCHANGED <<comm_size, root, mem, round, rt_err, elem_dt>>
    /\ UNCHANGED <<partVars, dtVars, barVars, cntVars>>

broadcast_into(p, b) ==
    LET o == [op |-> "broadcast", buf |-> b, supply |-> "all"]
        d == Accessor(types[p]) IN
    /\ MayEnter(p, o)
    /\ Enter(p, o, WithTypes(BroadcastArgs(p, b), d.h, d.h), mem[p][b], d.ts, d.temp)

gather_into(p, mode) ==
    LET o == [op |-> "gather", buf |-> "g", supply |-> mode]
        \* let (recvptr, recvcount, recvtype) = recvbuf.map_or(...);
        r == MapOrType(Supplies(mode, p), types[p])
        \* ffi::MPI_Gather(.., sendbuf.datatype().raw(), .., recvtype, ..);
        d == Accessor(r.ts) IN
    /\ MayEnter(p, o)
    /\ Enter(p, o, WithTypes(GatherArgs(p, "s", "g", Supplies(mode, p)), d.h, r.h),
             mem[p].s, d.ts, d.temp)

all_gather_into(p) ==
    LET o == [op |-> "all_gather", buf |-> "g", supply |-> "all"]
        d == Accessor(types[p])
        r == Accessor(d.ts) IN
    /\ MayEnter(p, o)
    /\ Enter(p, o, WithTypes(AllGatherArgs(p, "s", "g"), d.h, r.h),
             mem[p].s, r.ts, d.temp \cup r.temp)

scatter_into(p, mode) ==
    LET o == [op |-> "scatter", buf |-> "g", supply |-> mode]
        \* let (sendptr, sendcount, sendtype) = sendbuf.map_or(...);
        d == MapOrType(Supplies(mode, p), types[p])
        \* ffi::MPI_Scatter(sendptr, sendcount, sendtype, .., recvbuf.datatype().raw(), ..);
        r == Accessor(d.ts) IN
    /\ MayEnter(p, o)
    /\ Enter(p, o, WithTypes(ScatterArgs(p, "g", "r", Supplies(mode, p)), d.h, r.h),
             IF Supplies(mode, p) THEN mem[p].g ELSE <<>>, r.ts, r.temp)

all_to_all_into(p) ==
    LET o == [op |-> "all_to_all", buf |-> "g", supply |-> "all"]
        d == Accessor(types[p])
        r == Accessor(d.ts) IN
    /\ MayEnter(p, o)
    /\ Enter(p, o, WithTypes(AllToAllArgs(p, "g", "t"), d.h, r.h),
             mem[p].g, r.ts, d.temp \cup r.temp)

\* A datatype handle the runtime can use: a system datatype or a descriptor
\* of the participant that is committed and has not been freed.
LiveType(p, h) ==
    \/ h \in SystemDatatypes
    \/ h \in DOMAIN types[p] /\ types[p][h].state = "committed"

\* p handed the runtime the handle of a descriptor that was freed before
StaleType(p) ==
    ~LiveType(p, call[p].sendtype) \/ ~LiveType(p, call[p].recvtype)

\* The runtime completes p's part of its collective: everything p waits for
\* has been sent, the incoming segments are stored and the call returns;
\* the statement of the ffi call ends and its temporaries are dropped.
\* Counts that do not match make the call erroneous: where a segment is
\* longer than its slot the runtime reports an error; where it is shorter
\* the runtime reports an error or stores the shorter segment.  With the
\* handle of a freed descriptor the call is erroneous as well: the runtime
\* reports an error or goes on with what is left of the descriptor.
Returned(p) ==
    /\ pc' = [pc EXCEPT ![p] = "idle"]
    /\ round' = [round EXCEPT ![p] = @ + 1]
    /\ call' = [call EXCEPT ![p] = NoCall]
    /\ types' = [types EXCEPT ![p] = DropTemps(@, temps[p])]
    /\ temps' = [temps EXCEPT ![p] = {}]
    /\ UNCHANGED rt_err

runtime_return(p) ==
    LET a   == call[p]
        k   == round[p] + 1
        inc == RtIncoming(p, a, k)
        buf == Pointee(p, a.recvptr)
        fit == RtFit(inc, a.recvcount, Len(buf)) IN
    /\ rt_err = {}
    /\ pc[p] = "in_call"
    /\ \A q \in RtSources(p, a) : wire[k][q].entered
    /\ \/ /\ inc = <<>>
          /\ Returned(p)
          /\ UNCHANGED mem
       \/ /\ inc # <<>>
          /\ fit \in {"exact", "short"}
          /\ Returned(p)
          /\ mem' = [mem EXCEPT ![p][a.recvptr] = RtPlace(buf, inc, a.recvcount)]
       \/ /\ \/ inc # <<>> /\ fit \in {"over", "short"}
             \/ StaleType(p)
          /\ rt_err' = {p}
          /\ UNCHANGED <<mem, pc, round, call, types, temps>>
    /\ UNCHANGED <<comm_size, root, ops, wire, elem_dt>>
    /\ UNCHANGED <<partVars, dtVars, barVars, cntVars>>

NotEntered == [entered |-> FALSE, given |-> <<>>, segs |-> <<>>]

\* The g and t buffers are comm_size * payload long on every participant,
\* or one element longer on every participant, or one element longer on one.
Extras ==
    {[p \in Ranks |-> 0], [p \in Ranks |-> 1]} \cup
    {[p \in Ranks |-> IF p = q THEN 1 ELSE 0] : q \in Ranks}

\* The communicator and the buffers of a program whose buffers have a
\* datatype of one of `kinds` and payloads of one of `payloads` elements.
\* A borrowed UserDatatype was made (created and committed) by the program
\* before it calls a collective.
InitProgram(kinds, payloads) ==
    /\ comm_size \in 1..MaxProcs
    /\ root \in Ranks
    /\ elem_dt \in kinds
    /\ types = [p \in Ranks |->
                  IF elem_dt = "borrowed"
                  THEN RtTypeCommit(RtTypeCreate(<<>>, "contiguous", U8_DATATYPE), 1)
                  ELSE <<>>]
    /\ temps = [p \in Ranks |-> {}]
    /\ \E payload \in payloads :
       \E extra \in Extras :
          mem = [p \in Ranks |->
                   [s |-> Pristine(p, 1, payload),
                    r |-> Pristine(p, 2, payload),
                    g |-> Pristine(p, 3, comm_size * payload + extra[p]),
                    t |-> Pristine(p, 4, comm_size * payload + extra[p])]]
    /\ pc = [p \in Ranks |-> "idle"]
    /\ round = [p \in Ranks |-> 0]
    /\ ops = <<>>
    /\ call = [p \in Ranks |-> NoCall]
    /\ wire = [k \in 1..MaxRounds |-> [p \in Ranks |-> NotEntered]]
    /\ rt_err = {}
    /\ PartIdle /\ DtIdle /\ BarIdle /\ CntIdle

\* programs whose buffers are slices of u8
InitCollective == InitProgram({"system"}, 1..MaxCount)

\* programs whose buffers have a UserDatatype, one element per participant
InitUserTyped == InitProgram(UserKinds, {1})

NextCollective ==
    \/ \E p \in Ranks : broadcast_into(p, "g")
    \/ \E p \in Ranks : \E mode \in SupplyModes : gather_into(p, mode)
    \/ \E p \in Ranks : all_gather_into(p)
    \/ \E p \in Ranks : \E mode \in SupplyModes : scatter_into(p, mode)
    \/ \E p \in Ranks : all_to_all_into(p)
    \/ \E p \in Ranks : runtime_return(p)

SpecCollective == InitCollective /\ [][NextCollective]_vars

SpecUserTyped == InitUserTyped /\ [][NextCollective]_vars

----------------------------------------------------------------------------
(* What the claims about the collectives speak of                          *)

\* the rounds that have been started
Rounds == 1..Len(ops)

\* Participant p has returned from round k and from no later round: its
\* buffers are as that call left them.
After(p, k) == round[p] = k

\* the runtime reported the call of some participant in round k as erroneous
FailedIn(k) == \E p \in rt_err : round[p] + 1 = k

\* the elements a participant contributes (the count of its buffer s)
Payload(p) == Len(mem[p].s)

\* segment i (0-based) of `seg` elements of a buffer
Segment(buf, i, seg) == Slice(buf, i * seg + 1, seg)

----------------------------------------------------------------------------
(* C6: when a participant calls broadcast_into with a buffer of the same   *)
(* element count as the root's, then after the call its buffer holds what  *)
(* the root's buffer held when the root made the call; this includes the   *)
(* root, whose buffer is unchanged. When all counts are equal the runtime  *)
(* accepts the call.                                                       *)

C6_BroadcastCopiesRoot ==
    \A k \in Rounds :
        ops[k].op = "broadcast" =>
            /\ \A p \in Ranks :
                  (/\ After(p, k)
                   /\ wire[k][root].entered
                   /\ Len(mem[p][ops[k].buf]) = Len(wire[k][root].given))
                  => mem[p][ops[k].buf] = wire[k][root].given
            /\ (\A p, q \in Ranks : Len(mem[p][ops[k].buf]) = Len(mem[q][ops[k].buf]))
                  => ~FailedIn(k)

\* a broadcast from a root other than rank 0 has completed everywhere,
\* with buffers of equal count
C6_Witness ==
    /\ comm_size > 1 /\ root # 0
    /\ Len(ops) >= 1 /\ ops[1].op = "broadcast"
    /\ \A p \in Ranks :
          /\ After(p, 1)
          /\ Len(mem[p].g) = Len(mem[root].g)
          /\ mem[p].g = Pristine(root, 3, Len(mem[root].g))

----------------------------------------------------------------------------
(* C7: when all participants call gather_into with send buffers of the     *)
(* same count c and the root supplies a receive buffer of count P*c, the   *)
(* runtime accepts the call and after it segment i of the root's receive   *)
(* buffer equals the send buffer of participant i, for every rank i.       *)

----------------------------------------------------------------------------
(* C8: gather_into followed by scatter_into from the same root, with the   *)
(* gathered buffer as the source, returns to every participant exactly the *)
(* send buffer it contributed to the gather; with a gathered buffer of P   *)
(* segments of the payload the runtime accepts both calls.                 *)

GatherThenScatter(k) ==
    /\ k + 1 <= Len(ops)
    /\ ops[k].op = "gather"
    /\ ops[k + 1].op = "scatter"

----------------------------------------------------------------------------
(* C9: all_to_all_into is a transpose: when the send and receive buffers   *)
(* of every participant are P segments of c elements, the runtime accepts  *)
(* the call and after it segment j of participant i's receive buffer       *)
(* equals segment i of participant j's send buffer, for all ranks i and j. *)

EqualSegments == \A p \in Ranks : Len(mem[p].g) = comm_size * Payload(p)

C9_AllToAllTransposes ==
    \A k \in Rounds :
        (ops[k].op = "all_to_all" /\ EqualSegments) =>
            /\ ~FailedIn(k)
            /\ \A i \in Ranks : After(i, k) =>
                  \A j \in Ranks :
                      Segment(mem[i].t, j, Payload(i)) =
                          Segment(wire[k][j].given, i, Payload(i))

\* an all-to-all of segments of more than one element has completed
\* everywhere: the receive buffers hold the transpose of the send buffers
C9_Witness ==
    /\ comm_size > 1 /\ Payload(0) > 1 /\ EqualSegments
    /\ Len(ops) >= 1 /\ ops[1].op = "all_to_all"
    /\ \A i \in Ranks :
          /\ After(i, 1)
          /\ \A j \in Ranks :
                Segment(mem[i].t, j, Payload(i)) =
                    [o \in 1..Payload(i) |-> Elem(j, 3, i * Payload(i) + o)]

----------------------------------------------------------------------------
(* C10: when all participants call all_gather_into with send buffers of    *)
(* the same count c and a participant's receive buffer has count P*c, the  *)
(* runtime accepts its call and after it the receive buffer is the         *)
(* concatenation of all send buffers in rank order; any two such           *)
(* participants end with identical receive buffers.                        *)

ExactBuffer(p) == Len(mem[p].g) = comm_size * Payload(p)

C10_AllGatherSameEverywhere ==
    \A k \in Rounds :
        ops[k].op = "all_gather" =>
            /\ \A p \in Ranks : ExactBuffer(p) => p \notin rt_err \/ round[p] + 1 # k
            /\ \A p \in Ranks : (After(p, k) /\ ExactBuffer(p)) =>
                  \A j \in Ranks :
                      Segment(mem[p].g, j, Payload(p)) = wire[k][j].given
            /\ \A p, q \in Ranks :
                  (After(p, k) /\ After(q, k) /\ ExactBuffer(p) /\ ExactBuffer(q))
                  => mem[p].g = mem[q].g

\* an all-gather of payloads of more than one element has completed
\* everywhere, into receive buffers of exactly P*c elements
C10_Witness ==
    /\ comm_size > 1 /\ Payload(0) > 1 /\ EqualSegments
    /\ Len(ops) >= 1 /\ ops[1].op = "all_gather"
    /\ \A p \in Ranks :
          /\ After(p, 1)
          /\ \A j \in Ranks : Segment(mem[p].g, j, Payload(p)) = Pristine(j, 1, Payload(j))

----------------------------------------------------------------------------
(* C13: in gather_into and scatter_into, on every participant other than   *)
(* the root the root-only buffer (the receive buffer of gather, the send   *)
(* buffer of scatter) is absent: the runtime is handed the null pointer    *)
(* and the count 0 for it, never an address or a count taken from a buffer *)
(* the caller supplied.                                                    *)

InCall(p) == pc[p] = "in_call"

C13_NonRootSuppliesNothing ==
    \A p \in Ranks :
        (InCall(p) /\ p # call[p].root) =>
            /\ call[p].op = "gather" =>
                  call[p].recvptr = "null" /\ call[p].recvcount = 0
            /\ call[p].op = "scatter" =>
                  call[p].sendptr = "null" /\ call[p].sendcount = 0

----------------------------------------------------------------------------
(* C16: the count handed to the runtime for a buffer that is divided into  *)
(* per-participant segments (the receive buffer of gather_into where it is *)
(* supplied, the receive buffer of all_gather_into, the send buffer of     *)
(* scatter_into where it is supplied, both buffers of all_to_all_into) is  *)
(* floor(buffer.count() / P), so that P segments cover no more than the    *)
(* buffer; the count of a buffer that is not divided (send buffer of       *)
(* gather and all-gather, receive buffer of scatter, the buffer of a       *)
(* broadcast) is handed over unchanged.                                    *)

\* q = floor(n / P): P segments of q fit n, P segments of q + 1 do not
IsFloorOfShare(q, n) ==
    /\ q * comm_size <= n
    /\ n < (q + 1) * comm_size

C16_CountsDividedByP ==
    \A p \in Ranks :
        InCall(p) =>
            LET a == call[p] IN
            /\ a.op = "broadcast" =>
                  a.sendcount = Len(mem[p][ops[round[p] + 1].buf])
            /\ a.op = "gather" =>
                  /\ a.sendcount = Len(mem[p].s)
                  /\ a.recvptr # "null" => IsFloorOfShare(a.recvcount, Len(mem[p].g))
            /\ a.op = "all_gather" =>
                  /\ a.sendcount = Len(mem[p].s)
                  /\ IsFloorOfShare(a.recvcount, Len(mem[p].g))
            /\ a.op = "scatter" =>
                  /\ a.recvcount = Len(mem[p].r)
                  /\ a.sendptr # "null" => IsFloorOfShare(a.sendcount, Len(mem[p].g))
            /\ a.op = "all_to_all" =>
                  /\ IsFloorOfShare(a.sendcount, Len(mem[p].g))
                  /\ IsFloorOfShare(a.recvcount, Len(mem[p].t))

\* the root is in a gather with a receive buffer the communicator size
\* does not divide, while another participant is in the same gather
C16_Witness ==
    /\ comm_size > 1
    /\ Len(mem[root].g) % comm_size # 0
    /\ InCall(root) /\ call[root].op = "gather"
    /\ call[root].recvcount = Payload(root)
    /\ \E q \in Ranks \ {root} : InCall(q) /\ call[q].sendcount = Payload(q)

----------------------------------------------------------------------------
(* C15: in every collective, each datatype handle handed to the runtime is *)
(* the handle of a committed descriptor that has not been released when    *)
(* the runtime is called, whatever the kind of the buffer's datatype: a    *)
(* system datatype, a borrowed UserDatatype, or an owned UserDatatype the  *)
(* datatype accessor returned.                                             *)

C15_HandlesLiveAtCall ==
    \A p \in Ranks :
        InCall(p) =>
            /\ LiveType(p, call[p].sendtype)
            /\ LiveType(p, call[p].recvtype)

====
